---- MODULE Spec2Model ----
(***************************************************************************)
(* Model of src/context/CounterContext.tsx: the reducer over               *)
(* {count, text}, the useCounterContext hook that owns one reducer state   *)
(* per mounted CounterProvider, the CounterContext default value, and the  *)
(* useCounter / useCounterText accessors.                                  *)
(*                                                                         *)
(* Two specifications share the module:                                    *)
(*   SpecReducer  calls the reducer directly on bounded inputs;            *)
(*   Spec         mounts providers, dispatches through the callbacks the   *)
(*                consumers read from the context, and renders.            *)
(***************************************************************************)
EXTENDS Integers, Sequences, FiniteSets, TLC

VARIABLES
    callStart,   \* reducer harness: the state the first call was given
    callState,   \* reducer harness: the state the next call is given
    callPrev,    \* reducer harness: the state the last call was given
    callActs,    \* reducer harness: the actions passed so far, in order
    callThrown,  \* reducer harness: TRUE once a call threw
    initState,   \* the module-level object `initState`
    mounted,     \* per provider: a CounterProvider instance is mounted
    props,       \* per provider: the {count, text} props of its last render
    hookState,   \* per provider: the state its useReducer hook holds
    queue,       \* per provider: actions dispatched and not yet reduced
    memo,        \* per provider: the callbacks its useCallback hooks hold
    value,       \* per provider: the value its CounterContext.Provider passes
    view,        \* per consumer: what useCounter / useCounterText returned
                 \* at its last render
    noopCalls,   \* calls made so far of the default value's callbacks
    log          \* per provider, where a specification records it: the state
                 \* it was mounted with, the actions dispatched on it since,
                 \* and how many of them its last render reduced

callVars == <<callStart, callState, callPrev, callActs, callThrown>>
treeVars == <<initState, mounted, props, hookState, queue, memo, value, view, noopCalls, log>>
vars == <<callVars, treeVars>>

(***************************************************************************)
(* Bounds                                                                  *)
(***************************************************************************)
\* half-width of the windows of count values around 0, 2^53 and -2^53
MaxOff == 2
\* number of consecutive direct reducer calls
MaxCalls == 3
\* actions dispatched and not yet reduced, over all providers
MaxQueue == 2
\* calls of the default value's callbacks
MaxNoopCalls == 2
\* actions recorded per mounted provider
MaxLog == 3

(***************************************************************************)
(* JavaScript values.  A number is base * 2^53 + off with a small off, so  *)
(* that the values around the largest exactly representable integers are   *)
(* part of the model without computing 2^53.                               *)
(***************************************************************************)
Undefined == [t |-> "undefined"]
Null == [t |-> "null"]
NaN == [t |-> "NaN"]
Str(s) == [t |-> "string", v |-> s]
Num(b, o) == [t |-> "number", base |-> b, off |-> o]

IsString(x) == x.t = "string"
\* a number that is an integer (NaN is a number, not an integer)
IsInteger(x) == x.t = "number"

\* base * 2^53 + off is an IEEE-754 double: every integer of magnitude up to
\* 2^53, and the even ones beyond it (for |off| far below 2^53)
IsDouble(b, o) ==
    \/ b = 0
    \/ b = 1 /\ (o <= 0 \/ o % 2 = 0)
    \/ b = -1 /\ (o >= 0 \/ o % 2 = 0)

\* round-to-nearest, ties to the even significand: an odd integer beyond
\* 2^53 lies halfway between two doubles, and the one that is a multiple
\* of 4 has the even significand
RoundToDouble(b, o) ==
    IF IsDouble(b, o) THEN Num(b, o)
    ELSE IF (o - 1) % 4 = 0 THEN Num(b, o - 1) ELSE Num(b, o + 1)

\* x + d and x - d for a small integer d, as the JavaScript operators
\* compute them on the values a count can hold
Plus(x, d) ==
    CASE x.t = "number" -> RoundToDouble(x.base, x.off + d)
      [] x.t = "null" -> Num(0, d)
      [] x.t \in {"undefined", "NaN"} -> NaN

Minus(x, d) ==
    CASE x.t = "number" -> RoundToDouble(x.base, x.off - d)
      [] x.t = "null" -> Num(0, -d)
      [] x.t \in {"undefined", "NaN"} -> NaN

\* a ?? b
Nullish(a, b) == IF a.t \in {"undefined", "null"} THEN b ELSE a

\* obj.k: a property the object does not have reads as undefined
Get(obj, k) == IF k \in DOMAIN obj THEN obj[k] ELSE Undefined

\* { ...obj, k: v }
Spread(obj, k, v) == [f \in DOMAIN obj \cup {k} |-> IF f = k THEN v ELSE obj[f]]

(***************************************************************************)
(* The module's constants                                                  *)
(***************************************************************************)
INCREMENT == 0
DECREMENT == 1
NEW_INPUT == 2

\* export const initState (the value the module is loaded with)
InitStateValue == [count |-> Num(0, 0), text |-> Str("")]

\* what a call of the reducer yields when it throws
Error == [error |-> "Error"]

(***************************************************************************)
(* reducer                                                                 *)
(***************************************************************************)
\* variants of the reducer, each with one slip in one branch
reducerIncrementNoSpread(state, action) ==
    CASE action.type = INCREMENT ->
            [count |-> Plus(Get(state, "count"), 1)]
      [] action.type = DECREMENT ->
            Spread(state, "count", Minus(Get(state, "count"), 1))
      [] action.type = NEW_INPUT ->
            Spread(state, "text", Nullish(Get(action, "payload"), Str("")))
      [] OTHER -> Error

reducerDecrementAdds(state, action) ==
    CASE action.type = INCREMENT ->
            Spread(state, "count", Plus(Get(state, "count"), 1))
      [] action.type = DECREMENT ->
            Spread(state, "count", Plus(Get(state, "count"), 1))
      [] action.type = NEW_INPUT ->
            Spread(state, "text", Nullish(Get(action, "payload"), Str("")))
      [] OTHER -> Error

reducerNewInputNoSpread(state, action) ==
    CASE action.type = INCREMENT ->
            Spread(state, "count", Plus(Get(state, "count"), 1))
      [] action.type = DECREMENT ->
            Spread(state, "count", Minus(Get(state, "count"), 1))
      [] action.type = NEW_INPUT ->
            [text |-> Nullish(Get(action, "payload"), Str(""))]
      [] OTHER -> Error

reducerNoCoalesce(state, action) ==
    CASE action.type = INCREMENT ->
            Spread(state, "count", Plus(Get(state, "count"), 1))
      [] action.type = DECREMENT ->
            Spread(state, "count", Minus(Get(state, "count"), 1))
      [] action.type = NEW_INPUT ->
            Spread(state, "text", Get(action, "payload"))
      [] OTHER -> Error

reducerDefaultReturnsState(state, action) ==
    CASE action.type = INCREMENT ->
            Spread(state, "count", Plus(Get(state, "count"), 1))
      [] action.type = DECREMENT ->
            Spread(state, "count", Minus(Get(state, "count"), 1))
      [] action.type = NEW_INPUT ->
            Spread(state, "text", Nullish(Get(action, "payload"), Str("")))
      [] OTHER -> state

\* text: state.text + payload, the input appended instead of replacing
reducerNewInputAppends(state, action) ==
    CASE action.type = INCREMENT ->
            Spread(state, "count", Plus(Get(state, "count"), 1))
      [] action.type = DECREMENT ->
            Spread(state, "count", Minus(Get(state, "count"), 1))
      [] action.type = NEW_INPUT ->
            LET p == Nullish(Get(action, "payload"), Str(""))
            IN  Spread(state, "text", Str(Get(state, "text").v \o p.v))
      [] OTHER -> Error

\* count: Math.max(0, state.count - 1), a counter that stops at zero
reducerDecrementClampsAtZero(state, action) ==
    CASE action.type = INCREMENT ->
            Spread(state, "count", Plus(Get(state, "count"), 1))
      [] action.type = DECREMENT ->
            IF Get(state, "count") = Num(0, 0) THEN Spread(state, "count", Num(0, 0))
            ELSE Spread(state, "count", Minus(Get(state, "count"), 1))
      [] action.type = NEW_INPUT ->
            Spread(state, "text", Nullish(Get(action, "payload"), Str("")))
      [] OTHER -> Error

reducer(state, action) ==
    CASE action.type = INCREMENT ->
            Spread(state, "count", Plus(Get(state, "count"), 1))
      [] action.type = DECREMENT ->
            Spread(state, "count", Minus(Get(state, "count"), 1))
      [] action.type = NEW_INPUT ->
            Spread(state, "text", Nullish(Get(action, "payload"), Str("")))
      [] OTHER -> Error

(***************************************************************************)
(* Inputs                                                                  *)
(***************************************************************************)
Strings == {"", "a", "abc"}

CountInputs ==
    {Num(b, o) : <<b, o>> \in {bo \in {-1, 0, 1} \X (-MaxOff..MaxOff) : IsDouble(bo[1], bo[2])}}

StateInputs == {[count |-> c, text |-> Str(s)] : c \in CountInputs, s \in Strings}

PayloadInputs == {Undefined, Null} \cup {Str(s) : s \in Strings}

\* the three kinds as the callbacks build them, NEW_INPUT also with every
\* payload, and a type outside the enum
ActionInputs ==
    {[type |-> ty] : ty \in {INCREMENT, DECREMENT, NEW_INPUT, NEW_INPUT + 1}}
        \cup {[type |-> NEW_INPUT, payload |-> p] : p \in PayloadInputs}

(***************************************************************************)
(* The component tree: providers, the consumers under them, and a consumer *)
(* with no provider above it                                               *)
(***************************************************************************)
Providers == {"A", "B"}
Consumers == {"a1", "a2", "b1", "o1"}
None == [none |-> TRUE]

\* the provider above a consumer, if any
NoProvider == "none"
Parent(c) ==
    CASE c \in {"a1", "a2"} -> "A"
      [] c = "b1" -> "B"
      [] OTHER -> NoProvider

CallbackNames == {"increment", "decrement", "handleTextInput"}

\* every provider's callbacks dispatch to one shared store
FnSharedStore(p, born, name) == [prov |-> "A", born |-> born, name |-> name]

\* the closure a render of provider p creates for a callback: `born` tells
\* the closures of the first render from those of the later ones
Fn(p, born, name) == [prov |-> p, born |-> born, name |-> name]

\* the functions () => {} and (e) => {} of initContextState
NoopFn(name) == [noop |-> name]
IsNoop(fn) == DOMAIN fn = {"noop"}

\* props a provider is rendered with: each field given or left out
PropsInputs ==
    {[f \in fs |-> IF f = "count" THEN c ELSE Str(t)] :
        fs \in SUBSET {"count", "text"},
        c \in {Num(0, 0), Num(1, -1)},
        t \in {"", "abc"}}

\* the change event of the text input: e.target.value is a string
EventInputs == {[target |-> [value |-> Str(s)]] : s \in {"", "abc"}}
NoEvent == [target |-> [value |-> Undefined]]

(***************************************************************************)
(* useReducer, useCallback                                                 *)
(***************************************************************************)
\* only the first queued action is reduced, the rest are dropped
ApplyAllOnlyFirst(st, q) ==
    IF q = <<>> \/ st = Error THEN st ELSE reducer(st, Head(q))

\* the queued actions reduced in the order they were dispatched
RECURSIVE ApplyAll(_, _)
ApplyAll(st, q) ==
    IF q = <<>> \/ st = Error THEN st
    ELSE ApplyAll(reducer(st, Head(q)), Tail(q))

\* the state is set again from initialArg whenever the props change
useReducerResets(p, initialArg) ==
    IF mounted[p] /\ initialArg = props[p]
    THEN ApplyAll(hookState[p], queue[p])
    ELSE initialArg

\* the state part of useReducer(reducer, initialArg): initialArg on the first
\* render, afterwards the held state with the queued actions reduced
useReducer(p, initialArg) ==
    IF mounted[p] THEN ApplyAll(hookState[p], queue[p]) ELSE initialArg

useCallbackNoMemo(fresh, memoized) == fresh

\* useCallback(fn, []): the function of the first render, ever after
useCallback(fresh, memoized) ==
    IF memoized = None THEN fresh ELSE memoized

\* handleTextInput dispatches a type the enum does not have
ActionOfWrongType(name, e) ==
    CASE name = "increment" -> [type |-> INCREMENT]
      [] name = "decrement" -> [type |-> DECREMENT]
      [] name = "handleTextInput" ->
            [type |-> NEW_INPUT + 1, payload |-> e.target.value]

\* the action a callback dispatches
ActionOf(name, e) ==
    CASE name = "increment" -> [type |-> INCREMENT]
      [] name = "decrement" -> [type |-> DECREMENT]
      [] name = "handleTextInput" ->
            [type |-> NEW_INPUT, payload |-> e.target.value]

(***************************************************************************)
(* useCounterContext, CounterProvider, the default, the accessors          *)
(***************************************************************************)
Memoized(p, name) == IF memo[p] = None THEN None ELSE memo[p][name]

useCounterContext(p, initArg) ==
    LET born == IF mounted[p] THEN "rerender" ELSE "mount"
        cb(name) == useCallback(Fn(p, born, name), Memoized(p, name))
    IN  [state |-> useReducer(p, initArg),
         increment |-> cb("increment"),
         decrement |-> cb("decrement"),
         handleTextInput |-> cb("handleTextInput")]

\* the provider spreads the module defaults under its props
CounterProviderDefaults(p, pr) ==
    useCounterContext(p,
        [f \in {"count", "text"} |-> IF f \in DOMAIN pr THEN pr[f] ELSE InitStateValue[f]])

\* ({ children, ...initState }) => <Provider value={useCounterContext(initState)}>:
\* the value passed down, pr being the props other than children
CounterProvider(p, pr) == useCounterContext(p, pr)

initContextState ==
    [state |-> initState,
     increment |-> NoopFn("increment"),
     decrement |-> NoopFn("decrement"),
     handleTextInput |-> NoopFn("handleTextInput")]

useCounterWholeState(ctx) ==
    [count |-> ctx.state, increment |-> ctx.increment, decrement |-> ctx.decrement]

useCounter(ctx) ==
    [count |-> Get(ctx.state, "count"),
     increment |-> ctx.increment,
     decrement |-> ctx.decrement]

useCounterText(ctx) ==
    [text |-> Get(ctx.state, "text"),
     handleTextInput |-> ctx.handleTextInput]

\* what a consumer that calls both accessors gets from a context value
Consume(ctx) == [counter |-> useCounter(ctx), text |-> useCounterText(ctx)]

NoopBodyIncrements(obj, name) ==
    IF name = "increment" THEN Spread(obj, "count", Plus(Get(obj, "count"), 1)) ELSE obj

\* the body {} of a callback of initContextState: what it makes of initState
NoopBody(obj, name) == obj

(***************************************************************************)
(* Spec: the tree                                                          *)
(***************************************************************************)
InitTree ==
    /\ initState = InitStateValue
    /\ mounted = [p \in Providers |-> FALSE]
    /\ props = [p \in Providers |-> None]
    /\ hookState = [p \in Providers |-> None]
    /\ queue = [p \in Providers |-> <<>>]
    /\ memo = [p \in Providers |-> None]
    /\ value = [p \in Providers |-> None]
    /\ view = [c \in Consumers |-> None]
    /\ noopCalls = 0
    /\ log = [p \in Providers |-> None]

InitCalls ==
    /\ callStart = InitStateValue
    /\ callState = callStart
    /\ callPrev = callStart
    /\ callActs = <<>>
    /\ callThrown = FALSE

Init == InitCalls /\ InitTree

\* the consumers keep what they read when they were mounted
CommitStaleViews(p, pr, ctx) ==
    /\ mounted' = [mounted EXCEPT ![p] = TRUE]
    /\ props' = [props EXCEPT ![p] = pr]
    /\ hookState' = [hookState EXCEPT ![p] = ctx.state]
    /\ queue' = [queue EXCEPT ![p] = <<>>]
    /\ memo' = [memo EXCEPT ![p] = [n \in CallbackNames |-> ctx[n]]]
    /\ value' = [value EXCEPT ![p] = ctx]
    /\ view' = [c \in Consumers |->
                    IF Parent(c) = p /\ ~mounted[p] THEN Consume(ctx) ELSE view[c]]
    /\ UNCHANGED <<initState, noopCalls, callVars>>

\* a render of provider p and of the consumers under it has produced ctx
Commit(p, pr, ctx) ==
    /\ mounted' = [mounted EXCEPT ![p] = TRUE]
    /\ props' = [props EXCEPT ![p] = pr]
    /\ hookState' = [hookState EXCEPT ![p] = ctx.state]
    /\ queue' = [queue EXCEPT ![p] = <<>>]
    /\ memo' = [memo EXCEPT ![p] = [n \in CallbackNames |-> ctx[n]]]
    /\ value' = [value EXCEPT ![p] = ctx]
    /\ view' = [c \in Consumers |-> IF Parent(c) = p THEN Consume(ctx) ELSE view[c]]
    /\ UNCHANGED <<initState, noopCalls, callVars>>

\* <CounterProvider count=.. text=..> is mounted with its children
Mount(p, pr) ==
    /\ ~mounted[p]
    /\ Commit(p, pr, CounterProvider(p, pr))

\* the provider renders again, with whatever props its parent now passes:
\* the queued actions are reduced and the consumers read the new value
Render(p, pr) ==
    /\ mounted[p]
    /\ Commit(p, pr, CounterProvider(p, pr))

Unmount(p) ==
    /\ mounted[p]
    /\ mounted' = [mounted EXCEPT ![p] = FALSE]
    /\ props' = [props EXCEPT ![p] = None]
    /\ hookState' = [hookState EXCEPT ![p] = None]
    /\ queue' = [queue EXCEPT ![p] = <<>>]
    /\ memo' = [memo EXCEPT ![p] = None]
    /\ value' = [value EXCEPT ![p] = None]
    /\ view' = [c \in Consumers |-> IF Parent(c) = p THEN None ELSE view[c]]
    /\ UNCHANGED <<initState, noopCalls, callVars>>

\* a consumer with no provider above it renders: useContext yields the default
RenderOrphan(c) ==
    /\ Parent(c) = NoProvider
    /\ view' = [view EXCEPT ![c] = Consume(initContextState)]
    /\ UNCHANGED <<initState, mounted, props, hookState, queue, memo, value, noopCalls, callVars>>

RECURSIVE SumLen(_)
SumLen(ps) ==
    IF ps = {} THEN 0
    ELSE LET p == CHOOSE x \in ps : TRUE IN Len(queue[p]) + SumLen(ps \ {p})

\* the count stays in the windows the model covers
InWindow(st) ==
    Get(st, "count").t = "number" =>
        (Get(st, "count").off >= -MaxOff /\ Get(st, "count").off <= MaxOff)

\* dispatch(action) on the reducer hook of provider p
Dispatch(p, a) ==
    /\ SumLen(Providers) < MaxQueue
    /\ InWindow(ApplyAll(hookState[p], Append(queue[p], a)))
    /\ queue' = [queue EXCEPT ![p] = Append(@, a)]
    /\ UNCHANGED <<initState, mounted, props, hookState, memo, value, view, noopCalls, callVars>>

\* a call of one of the default value's callbacks
CallNoop(name) ==
    /\ noopCalls < MaxNoopCalls
    /\ noopCalls' = noopCalls + 1
    /\ initState' = NoopBody(initState, name)
    /\ UNCHANGED <<mounted, props, hookState, queue, memo, value, view, callVars>>

\* a call fn(e) of a callback read from the context
Invoke(fn, e) ==
    IF IsNoop(fn) THEN CallNoop(fn.noop) ELSE Dispatch(fn.prov, ActionOf(fn.name, e))

\* consumer c calls the increment() it got from useCounter
Increment(c) ==
    /\ view[c] # None
    /\ Invoke(view[c].counter.increment, NoEvent)

Decrement(c) ==
    /\ view[c] # None
    /\ Invoke(view[c].counter.decrement, NoEvent)

\* the text input of consumer c fires its change event
HandleTextInput(c, e) ==
    /\ view[c] # None
    /\ Invoke(view[c].text.handleTextInput, e)

\* the steps of the providers ps, rendered with props of prs, and of the
\* consumers cs, with nothing recorded in the log
NextOf(ps, cs, prs) ==
    \/ \E p \in ps, pr \in prs : Mount(p, pr) /\ UNCHANGED log
    \/ \E p \in ps, pr \in prs : Render(p, pr) /\ UNCHANGED log
    \/ \E p \in ps : Unmount(p) /\ UNCHANGED log
    \/ \E c \in cs : RenderOrphan(c) /\ UNCHANGED log
    \/ \E c \in cs : Increment(c) /\ UNCHANGED log
    \/ \E c \in cs : Decrement(c) /\ UNCHANGED log
    \/ \E c \in cs, e \in EventInputs : HandleTextInput(c, e) /\ UNCHANGED log

\* one provider with two consumers under it, and one consumer outside
Next == NextOf({"A"}, {"a1", "a2", "o1"}, PropsInputs)

Spec == Init /\ [][Next]_vars

(***************************************************************************)
(* Properties of the tree, over Spec                                       *)
(***************************************************************************)
ConsumersOf(p) == {c \in Consumers : Parent(c) = p}

\* provider p takes the step that mounts it
Mounts(p) == ~mounted[p] /\ mounted'[p]

WithDefaults(pr) ==
    [f \in {"count", "text"} |-> IF f \in DOMAIN pr THEN pr[f] ELSE InitStateValue[f]]

\* C7 as stated: a provider mounted without count and/or text starts with
\* the module defaults for the missing fields, one mounted with both starts
\* with exactly them; the first state a consumer reads has an integer count
\* and a string text.
C7_MountFillsInDefaults ==
    [][\A p \in Providers : Mounts(p) =>
            /\ hookState'[p] = WithDefaults(props'[p])
            /\ \A c \in ConsumersOf(p) :
                /\ IsInteger(view'[c].counter.count)
                /\ IsString(view'[c].text.text)]_vars

\* C7 amended: a provider starts with exactly the props it is mounted with:
\* given both count and text, the first state a consumer reads has that
\* integer count and that string text; a field left out is not defaulted,
\* the state lacks it and a consumer reads it as undefined.
C7_MountUsesPropsAsGiven ==
    [][\A p \in Providers : Mounts(p) =>
            /\ hookState'[p] = props'[p]
            /\ \A c \in ConsumersOf(p) :
                /\ view'[c].counter.count = Get(props'[p], "count")
                /\ view'[c].text.text = Get(props'[p], "text")
                /\ "count" \in DOMAIN props'[p] <=> IsInteger(view'[c].counter.count)
                /\ "text" \in DOMAIN props'[p] <=> IsString(view'[c].text.text)]_vars

C7_Witness ==
    /\ mounted["A"]
    /\ props["A"] = [text |-> Str("abc")]
    /\ hookState["A"] = [text |-> Str("abc")]
    /\ view["a1"].counter.count = Undefined
    /\ view["a1"].text.text = Str("abc")

DefaultView ==
    [counter |-> [count |-> Num(0, 0),
                  increment |-> NoopFn("increment"),
                  decrement |-> NoopFn("decrement")],
     text |-> [text |-> Str(""),
               handleTextInput |-> NoopFn("handleTextInput")]]

\* C8: with no provider above a consumer the counter accessor returns
\* count = 0 and the text accessor text = ""; calling the operations they
\* return, any number of times in any order, changes no state.
C8_NoProviderNoEffect ==
    /\ [](/\ initState = InitStateValue
          /\ \A c \in Consumers :
                (Parent(c) = NoProvider /\ view[c] # None) => view[c] = DefaultView)
    /\ [][noopCalls' # noopCalls =>
            UNCHANGED <<initState, mounted, props, hookState, queue, memo, value, view>>]_vars

C8_Witness ==
    /\ noopCalls = MaxNoopCalls
    /\ view["o1"] = DefaultView
    /\ initState = InitStateValue
    /\ mounted["A"]
    /\ Get(hookState["A"], "count") = Num(0, 1)

\* C9: under a mounted provider the counter accessor returns exactly
\* {count, increment, decrement}, count being the provider's current
\* state.count and the operations the provider's own, and the text accessor
\* exactly {text, handleTextInput}, text being the current state.text.
C9_AccessorsProjectProviderState ==
    \A p \in Providers : mounted[p] =>
        \A c \in ConsumersOf(p) :
            /\ view[c].counter =
                    [count |-> Get(hookState[p], "count"),
                     increment |-> value[p].increment,
                     decrement |-> value[p].decrement]
            /\ view[c].text =
                    [text |-> Get(hookState[p], "text"),
                     handleTextInput |-> value[p].handleTextInput]
            /\ value[p].state = hookState[p]
            /\ \A n \in CallbackNames : value[p][n].prov = p /\ value[p][n].name = n

C9_Witness ==
    /\ mounted["A"]
    /\ props["A"] = InitStateValue
    /\ hookState["A"] = InitStateValue
    /\ view["a1"].counter.count = Num(0, 0)
    /\ view["a2"].text.text = Str("")

\* C10: the increment, decrement and text-input functions a provider
\* instance hands out are, after any dispatches and re-renders, the
\* function values of its first render.
C10_CallbacksStable ==
    \A p \in Providers : mounted[p] =>
        \A n \in CallbackNames :
            /\ value[p][n] = Fn(p, "mount", n)
            /\ memo[p][n] = Fn(p, "mount", n)

C10_Witness ==
    /\ mounted["A"]
    /\ props["A"] = [count |-> Num(1, -1), text |-> Str("abc")]
    /\ hookState["A"] = [count |-> Num(0, 1), text |-> Str("")]
    /\ view["a1"].counter.increment = Fn("A", "mount", "increment")
    /\ view["a2"].text.handleTextInput = Fn("A", "mount", "handleTextInput")

\* the reducer applied to acts[1], ..., acts[n] in turn, starting from st
RECURSIVE Reduce(_, _, _)
Reduce(st, acts, n) ==
    IF n = 0 THEN st
    ELSE LET before == Reduce(st, acts, n - 1)
         IN  IF before = Error THEN Error ELSE reducer(before, acts[n])

KnownTypes == {INCREMENT, DECREMENT, NEW_INPUT}

\* C16: increment, decrement and the text-input operation submit actions of
\* kind Increment, Decrement and SetText respectively, so no sequence of
\* public operations on a provider drives the reducer into its fault branch.
C16_FaultUnreachable ==
    /\ ActionOf("increment", NoEvent).type = INCREMENT
    /\ ActionOf("decrement", NoEvent).type = DECREMENT
    /\ \A e \in EventInputs : ActionOf("handleTextInput", e).type = NEW_INPUT
    /\ \A p \in Providers : mounted[p] =>
            /\ hookState[p] # Error
            /\ \A i \in 1..Len(queue[p]) : queue[p][i].type \in KnownTypes
            /\ Reduce(hookState[p], queue[p], Len(queue[p])) # Error

C16_Witness ==
    /\ mounted["A"]
    /\ Get(hookState["A"], "count") = Num(0, -1)
    /\ queue["A"] = <<[type |-> INCREMENT], [type |-> NEW_INPUT, payload |-> Str("abc")]>>

\* C19: the {count, text} given to a provider is used only at mount:
\* afterwards its state changes only by the reducer applied to dispatched
\* actions, and a re-render with other count/text props does not alter it.
C19_PropsUsedOnlyAtMount ==
    [][\A p \in Providers : (mounted[p] /\ mounted'[p]) =>
            hookState'[p] =
                IF queue[p] # <<>> /\ queue'[p] = <<>>
                THEN Reduce(hookState[p], queue[p], Len(queue[p]))
                ELSE hookState[p]]_vars

C19_Witness ==
    /\ mounted["A"]
    /\ props["A"] = [count |-> Num(1, -1), text |-> Str("abc")]
    /\ hookState["A"] = [count |-> Num(0, -1), text |-> Str("")]
    /\ view["a1"].counter.count = Num(0, -1)
    /\ queue["A"] = <<>>

(***************************************************************************)
(* SpecLog: one provider and its two consumers, with the log recorded      *)
(***************************************************************************)
LogProps ==
    {InitStateValue, [text |-> Str("abc")], [count |-> Num(1, -1), text |-> Str("abc")]}

\* the log of provider p after a step
LogAfter(p) ==
    IF ~mounted'[p] THEN None
    ELSE IF ~mounted[p] THEN [start |-> hookState'[p], acts |-> <<>>, batch |-> 0]
    ELSE IF Len(queue'[p]) > Len(queue[p])
         THEN [log[p] EXCEPT !.acts = Append(@, queue'[p][Len(queue'[p])])]
    ELSE IF queue[p] # <<>> /\ queue'[p] = <<>>
         THEN [log[p] EXCEPT !.batch = Len(queue[p])]
    ELSE log[p]

Logged ==
    /\ log' = [p \in Providers |-> LogAfter(p)]
    /\ \A p \in Providers : log'[p] # None => Len(log'[p].acts) <= MaxLog

NextLog ==
    \/ \E pr \in LogProps : Mount("A", pr) /\ Logged
    \/ \E pr \in LogProps : Render("A", pr) /\ Logged
    \/ Unmount("A") /\ Logged
    \/ \E c \in {"a1", "a2"} : Increment(c) /\ Logged
    \/ \E c \in {"a1", "a2"} : Decrement(c) /\ Logged
    \/ \E c \in {"a1", "a2"}, e \in EventInputs : HandleTextInput(c, e) /\ Logged

SpecLog == Init /\ [][NextLog]_vars

(***************************************************************************)
(* Properties of the dispatched actions, over SpecLog                      *)
(***************************************************************************)
\* the recorded actions a render has reduced, and those still queued
Applied(p) == SubSeq(log[p].acts, 1, Len(log[p].acts) - Len(queue[p]))
Pending(p) ==
    SubSeq(log[p].acts, Len(log[p].acts) - Len(queue[p]) + 1, Len(log[p].acts))

CountOf(acts, ty) == Cardinality({i \in 1..Len(acts) : acts[i].type = ty})

\* the payload of the last SetText of acts, "" if it has none
LastText(acts) ==
    LET is == {i \in 1..Len(acts) : acts[i].type = NEW_INPUT}
    IN  IF is = {} THEN Str("")
        ELSE acts[CHOOSE i \in is : \A j \in is : j <= i].payload

\* C11: after any sequence of Increment, Decrement and SetText operations
\* on a provider that started at {count: 0, text: ""}, count is the number
\* of Increments minus the number of Decrements and text is the payload of
\* the most recent SetText ("" if none), however they are interleaved.
C11_CountAndTextFromHistory ==
    \A p \in Providers : (mounted[p] /\ log[p].start = InitStateValue) =>
        LET done == Applied(p)
            now == [count |-> Num(0, CountOf(done, INCREMENT) - CountOf(done, DECREMENT)),
                    text |-> LastText(done)]
        IN  /\ hookState[p] = now
            /\ \A c \in ConsumersOf(p) :
                    view[c].counter.count = now.count /\ view[c].text.text = now.text

C11_Witness ==
    /\ mounted["A"]
    /\ log["A"].start = InitStateValue
    /\ log["A"].acts = <<[type |-> INCREMENT], [type |-> INCREMENT], [type |-> DECREMENT]>>
    /\ queue["A"] = <<>>
    /\ hookState["A"] = [count |-> Num(0, 1), text |-> Str("")]

\* C12: every action dispatched on a provider is reduced exactly once, in
\* the order dispatched, each on the state the previous one produced: with
\* several dispatched before a render none is lost or duplicated, and the
\* state is the reducer folded over the dispatched actions.
C12_ReducedOnceInOrder ==
    \A p \in Providers : mounted[p] =>
        /\ Len(queue[p]) <= Len(log[p].acts)
        /\ queue[p] = Pending(p)
        /\ hookState[p] = Reduce(log[p].start, Applied(p), Len(Applied(p)))
        /\ log[p].batch <= Len(Applied(p))

C12_Witness ==
    /\ mounted["A"]
    /\ log["A"].start = InitStateValue
    /\ log["A"].acts = <<[type |-> DECREMENT],
                         [type |-> NEW_INPUT, payload |-> Str("abc")],
                         [type |-> INCREMENT]>>
    /\ log["A"].batch = 2
    /\ queue["A"] = <<>>
    /\ hookState["A"] = [count |-> Num(0, 0), text |-> Str("abc")]

WellTyped(st) ==
    /\ DOMAIN st = {"count", "text"}
    /\ IsInteger(st.count)
    /\ IsString(st.text)

\* what value and views of provider p show is its state, whole
ReadersSeeState(p) ==
    /\ value[p].state = hookState[p]
    /\ \A c \in ConsumersOf(p) :
            /\ view[c].counter.count = Get(hookState[p], "count")
            /\ view[c].text.text = Get(hookState[p], "text")

\* C14 as stated: in every reachable state of a mounted provider the state
\* holds both fields, count an integer and text a string, and no reader
\* sees a partly updated state.
C14_StateAlwaysWhole ==
    \A p \in Providers : mounted[p] =>
        WellTyped(hookState[p]) /\ ReadersSeeState(p)

\* C14 amended: the same, for a provider mounted with both an integer count
\* and a string text.
C14_StateWholeIfMountedWhole ==
    \A p \in Providers : mounted[p] =>
        /\ ReadersSeeState(p)
        /\ WellTyped(log[p].start) => WellTyped(hookState[p])

C14_Witness ==
    /\ mounted["A"]
    /\ log["A"].start = [count |-> Num(1, -1), text |-> Str("abc")]
    /\ log["A"].acts = <<[type |-> INCREMENT], [type |-> NEW_INPUT, payload |-> Str("")]>>
    /\ hookState["A"] = [count |-> Num(1, 0), text |-> Str("")]
    /\ view["a2"].text.text = Str("")

(***************************************************************************)
(* SpecLive: one provider and its two consumers; a dispatch schedules a    *)
(* render of the provider, which React carries out                         *)
(***************************************************************************)
LiveProps == {InitStateValue, [count |-> Num(1, -1), text |-> Str("abc")]}

\* the render a dispatch has scheduled: same props, the queue reduced
Flush(p) == queue[p] # <<>> /\ Render(p, props[p]) /\ UNCHANGED log

NextLive ==
    \/ \E pr \in LiveProps : Mount("A", pr) /\ UNCHANGED log
    \/ \E pr \in LiveProps : Render("A", pr) /\ UNCHANGED log
    \/ Unmount("A") /\ UNCHANGED log
    \/ \E c \in {"a1", "a2"} : Increment(c) /\ UNCHANGED log
    \/ \E c \in {"a1", "a2"} : Decrement(c) /\ UNCHANGED log
    \/ \E c \in {"a1", "a2"}, e \in EventInputs : HandleTextInput(c, e) /\ UNCHANGED log

SpecLive == Init /\ [][NextLive]_vars /\ WF_vars(Flush("A"))

\* every consumer under p shows the state p holds
AllSee(p) ==
    \A c \in ConsumersOf(p) :
        /\ view[c].counter.count = Get(hookState[p], "count")
        /\ view[c].text.text = Get(hookState[p], "text")

\* C13: at any render all consumers of a provider observe the same state,
\* the one its provider shows; and once an action is dispatched on a
\* mounted provider, every consumer of it eventually re-reads and observes
\* the state with the dispatched actions reduced (or the provider is gone):
\* no consumer stays stale forever.
C13_ConsumersEventuallySee ==
    /\ [](\A p \in Providers : mounted[p] =>
            \A c \in ConsumersOf(p) : view[c] = Consume(value[p]))
    /\ \A p \in {"A"} :
          (mounted[p] /\ queue[p] # <<>>)
              ~> (~mounted[p] \/ (queue[p] = <<>> /\ AllSee(p)))

C13_Witness ==
    /\ mounted["A"]
    /\ props["A"] = InitStateValue
    /\ queue["A"] = <<>>
    /\ hookState["A"] = [count |-> Num(0, -1), text |-> Str("abc")]
    /\ AllSee("A")

(***************************************************************************)
(* SpecPair: two providers side by side, a consumer under each, and one    *)
(* consumer under neither                                                  *)
(***************************************************************************)
NextPair ==
    \/ \E p \in {"A", "B"} : Mount(p, InitStateValue) /\ UNCHANGED log
    \/ \E p \in {"A", "B"} : Render(p, InitStateValue) /\ UNCHANGED log
    \/ \E p \in {"A", "B"} : Unmount(p) /\ UNCHANGED log
    \/ RenderOrphan("o1") /\ UNCHANGED log
    \/ \E c \in {"a1", "b1"} : Increment(c) /\ UNCHANGED log
    \/ \E c \in {"a1", "b1"} : Decrement(c) /\ UNCHANGED log
    \/ \E c \in {"a1", "b1"}, e \in EventInputs : HandleTextInput(c, e) /\ UNCHANGED log

SpecPair == Init /\ [][NextPair]_vars

\* all that belongs to the provider instance p and the consumers under it
Slice(p) ==
    <<mounted[p], props[p], hookState[p], queue[p], memo[p], value[p],
      [c \in ConsumersOf(p) |-> view[c]]>>

\* a step of provider p or of a consumer under it
StepOf(p) ==
    \/ Mount(p, InitStateValue)
    \/ Render(p, InitStateValue)
    \/ Unmount(p)
    \/ \E c \in ConsumersOf(p) :
          \/ Increment(c)
          \/ Decrement(c)
          \/ \E e \in EventInputs : HandleTextInput(c, e)

\* C18: provider instances are isolated: an operation on one provider, or
\* by a consumer under it, changes nothing of any other provider, its
\* state, its callbacks or what its consumers see, and no step changes the
\* module-level default state {count: 0, text: ""} that consumers without
\* a provider read.
C18_ProvidersIsolated ==
    /\ [](/\ initState = InitStateValue
          /\ view["o1"] # None => view["o1"] = DefaultView)
    /\ [][\A p \in Providers : StepOf(p) =>
            /\ \A q \in Providers \ {p} : Slice(q)' = Slice(q)
            /\ view'["o1"] = view["o1"]
            /\ initState' = initState]_vars

C18_Witness ==
    /\ mounted["A"] /\ mounted["B"]
    /\ hookState["A"] = [count |-> Num(0, 2), text |-> Str("")]
    /\ hookState["B"] = [count |-> Num(0, 0), text |-> Str("abc")]
    /\ view["a1"].counter.count = Num(0, 2)
    /\ view["b1"].text.text = Str("abc")
    /\ view["o1"] = DefaultView

(***************************************************************************)
(* SpecReducer: direct calls of the reducer, each on the previous result   *)
(***************************************************************************)
InitReducer ==
    /\ callStart \in StateInputs
    /\ callState = callStart
    /\ callPrev = callStart
    /\ callActs = <<>>
    /\ callThrown = FALSE
    /\ InitTree

CallReturns(a) ==
    /\ ~callThrown
    /\ Len(callActs) < MaxCalls
    /\ reducer(callState, a) # Error
    /\ callState' = reducer(callState, a)
    /\ callPrev' = callState
    /\ callActs' = Append(callActs, a)
    /\ UNCHANGED <<callStart, callThrown, treeVars>>

CallThrows(a) ==
    /\ ~callThrown
    /\ Len(callActs) < MaxCalls
    /\ reducer(callState, a) = Error
    /\ callThrown' = TRUE
    /\ callPrev' = callState
    /\ callActs' = Append(callActs, a)
    /\ UNCHANGED <<callStart, callState, treeVars>>

NextReducer ==
    \E a \in ActionInputs : CallReturns(a) \/ CallThrows(a)

SpecReducer == InitReducer /\ [][NextReducer]_vars

(***************************************************************************)
(* Properties of the reducer, over SpecReducer                             *)
(***************************************************************************)
NumCalls == Len(callActs)
LastAct == callActs[NumCalls]
AllOfType(acts, ty) == \A i \in 1..Len(acts) : acts[i].type = ty

\* the integer x + n, exactly
IntAdd(x, n) == Num(x.base, x.off + n)

\* -2^53 <= x <= 2^53: the integers that doubles count through one by one
InExactRange(x) ==
    \/ x.base = 0
    \/ x.base = 1 /\ x.off <= 0
    \/ x.base = -1 /\ x.off >= 0

\* C1 as stated: for every state s and n >= 0, n Increment actions in a row
\* yield count = s.count + n and text = s.text.
C1_IncrementAnyCount ==
    AllOfType(callActs, INCREMENT) =>
        /\ ~callThrown
        /\ Get(callState, "count") = IntAdd(callStart.count, NumCalls)
        /\ Get(callState, "text") = callStart.text

\* C1 amended: n Increment actions in a row leave text = s.text, and yield
\* count = s.count + n whenever -2^53 <= s.count and s.count + n <= 2^53.
C1_IncrementExactRange ==
    AllOfType(callActs, INCREMENT) =>
        /\ ~callThrown
        /\ DOMAIN callState = {"count", "text"}
        /\ callState.text = callStart.text
        /\ (InExactRange(callStart.count)
                /\ InExactRange(IntAdd(callStart.count, NumCalls)))
              => callState.count = IntAdd(callStart.count, NumCalls)

C1_Witness ==
    /\ NumCalls = 2
    /\ AllOfType(callActs, INCREMENT)
    /\ callStart = [count |-> Num(1, -2), text |-> Str("abc")]
    /\ callState = [count |-> Num(1, 0), text |-> Str("abc")]

\* C2 as stated: for every state s and n >= 0, n Decrement actions in a row
\* yield count = s.count - n and text = s.text.
C2_DecrementAnyCount ==
    AllOfType(callActs, DECREMENT) =>
        /\ ~callThrown
        /\ Get(callState, "count") = IntAdd(callStart.count, -NumCalls)
        /\ Get(callState, "text") = callStart.text

\* C2 amended: n Decrement actions in a row leave text = s.text, and yield
\* count = s.count - n whenever s.count <= 2^53 and -2^53 <= s.count - n.
C2_DecrementExactRange ==
    AllOfType(callActs, DECREMENT) =>
        /\ ~callThrown
        /\ DOMAIN callState = {"count", "text"}
        /\ callState.text = callStart.text
        /\ (InExactRange(callStart.count)
                /\ InExactRange(IntAdd(callStart.count, -NumCalls)))
              => callState.count = IntAdd(callStart.count, -NumCalls)

C2_Witness ==
    /\ NumCalls = 2
    /\ AllOfType(callActs, DECREMENT)
    /\ callStart = [count |-> Num(0, 1), text |-> Str("a")]
    /\ callState = [count |-> Num(0, -1), text |-> Str("a")]

\* C3: for every state s and string v (the empty one too), SetText(v)
\* yields text = v and count = s.count.
C3_SetTextSetsTextOnly ==
    (NumCalls > 0 /\ LastAct.type = NEW_INPUT /\ IsString(Get(LastAct, "payload"))) =>
        /\ ~callThrown
        /\ DOMAIN callState = {"count", "text"}
        /\ callState.text = LastAct.payload
        /\ callState.count = callPrev.count

C3_Witness ==
    /\ NumCalls > 0
    /\ LastAct = [type |-> NEW_INPUT, payload |-> Str("")]
    /\ callPrev = [count |-> Num(0, 1), text |-> Str("abc")]
    /\ callState = [count |-> Num(0, 1), text |-> Str("")]

\* C4: a SetText action whose payload is absent, undefined or null sets text
\* to the empty string and leaves count unchanged; text is a string after
\* every SetText transition.
C4_AbsentPayloadIsEmptyString ==
    (NumCalls > 0 /\ LastAct.type = NEW_INPUT) =>
        /\ ~callThrown
        /\ IsString(Get(callState, "text"))
        /\ Get(LastAct, "payload") \in {Undefined, Null} =>
                /\ Get(callState, "text") = Str("")
                /\ Get(callState, "count") = callPrev.count

C4_Witness ==
    /\ NumCalls = 2
    /\ callActs[1] = [type |-> NEW_INPUT, payload |-> Str("abc")]
    /\ LastAct = [type |-> NEW_INPUT]
    /\ callPrev.text = Str("abc")
    /\ callState.text = Str("")
    /\ callState.count = callStart.count

\* C5: an action whose kind is none of Increment, Decrement, SetText makes
\* the reducer throw; it is not a no-op and no next state is produced.
C5_UnknownKindThrows ==
    /\ callThrown <=>
            (NumCalls > 0 /\ LastAct.type \notin {INCREMENT, DECREMENT, NEW_INPUT})
    /\ callThrown => callState = callPrev

C5_Witness ==
    /\ callThrown
    /\ NumCalls = 2
    /\ callActs[1].type = INCREMENT
    /\ LastAct.type \notin {INCREMENT, DECREMENT, NEW_INPUT}

\* C6: SetText is idempotent: SetText(v) twice in a row yields the same
\* state as SetText(v) once.
C6_SetTextIdempotent ==
    (/\ NumCalls >= 2
     /\ LastAct.type = NEW_INPUT
     /\ callActs[NumCalls - 1] = LastAct) =>
        /\ ~callThrown
        /\ callState = callPrev

C6_Witness ==
    /\ NumCalls = 2
    /\ callActs[1] = [type |-> NEW_INPUT, payload |-> Str("abc")]
    /\ callActs[2] = callActs[1]
    /\ callStart.text = Str("a")
    /\ callState = [count |-> callStart.count, text |-> Str("abc")]

\* C17 as stated: count is not clamped at either end: Decrement at 0 yields
\* -1, and at no value of count does Increment or Decrement leave count
\* unchanged.
C17_NoCountIsFixed ==
    (NumCalls > 0 /\ LastAct.type \in {INCREMENT, DECREMENT}) =>
        /\ ~callThrown
        /\ callState.count # callPrev.count
        /\ (LastAct.type = DECREMENT /\ callPrev.count = Num(0, 0))
                => callState.count = Num(0, -1)

\* C17 amended: Decrement at 0 yields -1, and at every integer count with
\* -2^53 <= count < 2^53 Increment yields count + 1, at every one with
\* -2^53 < count <= 2^53 Decrement yields count - 1; Increment at 2^53 and
\* Decrement at -2^53 leave count unchanged.
C17_CountFixedOnlyAtLimits ==
    (NumCalls > 0 /\ LastAct.type \in {INCREMENT, DECREMENT}) =>
        /\ ~callThrown
        /\ (LastAct.type = DECREMENT /\ callPrev.count = Num(0, 0))
                => callState.count = Num(0, -1)
        /\ (LastAct.type = INCREMENT /\ InExactRange(callPrev.count))
                => callState.count =
                      IF callPrev.count = Num(1, 0) THEN callPrev.count
                      ELSE IntAdd(callPrev.count, 1)
        /\ (LastAct.type = DECREMENT /\ InExactRange(callPrev.count))
                => callState.count =
                      IF callPrev.count = Num(-1, 0) THEN callPrev.count
                      ELSE IntAdd(callPrev.count, -1)

C17_Witness ==
    /\ NumCalls = 2
    /\ callStart.count = Num(0, 1)
    /\ AllOfType(callActs, DECREMENT)
    /\ callPrev.count = Num(0, 0)
    /\ callState.count = Num(0, -1)

====
